---- MODULE Spec2Model ----
(***************************************************************************)
(* Model of the two Streamlit scripts of the suppository base calculator:  *)
(*   suppository_calculator.py        (sidebar form, density and DF mode)  *)
(*   suppository_calculator_5step.py  (plain page, density mode only)      *)
(*                                                                         *)
(* A state is what one session shows after the last run of its script:     *)
(* the values bound to the input widgets, the Python variables the run     *)
(* computed and the page sections it rendered.  Python floats are modelled *)
(* as exact rationals <<numerator, denominator>>; the variables hold the   *)
(* values the script passes to its display calls (which print them with    *)
(* four decimals).  The page headers (page config, title, logo) are not    *)
(* modelled.                                                               *)
(***************************************************************************)
EXTENDS Integers, Sequences, FiniteSets, TLC

VARIABLES app, form, page, five

vars == <<app, form, page, five>>

(***************************************************************************)
(* Bounds of the model.                                                    *)
(***************************************************************************)
MaxN == 2
MaxApis == 2

(***************************************************************************)
(* Exact rational arithmetic standing for Python's float arithmetic.       *)
(***************************************************************************)
None == <<0, 0>>

Abs(i) == IF i < 0 THEN -i ELSE i

RECURSIVE GCD(_, _)
GCD(a, b) == IF b = 0 THEN a ELSE GCD(b, a % b)

Rat(n, d) ==
    LET g == GCD(Abs(n), Abs(d))
        s == IF d < 0 THEN -1 ELSE 1
    IN  <<(s * n) \div g, (s * d) \div g>>

Whole(n) == <<n, 1>>
Zero == <<0, 1>>

RAdd(x, y) == Rat(x[1] * y[2] + y[1] * x[2], x[2] * y[2])
RSub(x, y) == Rat(x[1] * y[2] - y[1] * x[2], x[2] * y[2])
RMul(x, y) == Rat(x[1] * y[1], x[2] * y[2])
RDiv(x, y) == Rat(x[1] * y[2], x[2] * y[1])
RLt(x, y) == x[1] * y[2] < y[1] * x[2]
RLe(x, y) == x[1] * y[2] <= y[1] * x[2]
RAbs(x) == <<Abs(x[1]), x[2]>>

\* Python truthiness of a number-or-None: None and 0.0 are falsy.
Falsy(x) == x = None \/ x[1] = 0

(***************************************************************************)
(* Widget values.                                                          *)
(***************************************************************************)
DENSITY == "Density"
DF == "DF"
ApiModes == {DENSITY, DF}

RoundSteps == {"none", "0.001 g", "0.01 g", "0.1 g"}

\* N: integer, min_value = 1
Ns == 1..MaxN

\* base density: "Custom..." (1.0, 2.0)
BaseDensities == {<<1, 1>>, <<2, 1>>}

\* average blank weight per unit, min_value = 0.0
BlankWeights == {<<1, 2>>, <<2, 1>>}

\* amount and unit as entered
AmountInputs == {<<Zero, "mg">>, <<Whole(200), "mg">>, <<Whole(1), "g">>}

\* rho or DF as entered, min_value = 0.0001
Potencies == {<<1, 2>>, <<2, 1>>}

\* overage percent, min_value = 0.0
Overages == {Zero, Whole(5)}

\* one row of the ingredients grid
ApiRow(amt_value, unit, potency, mode) ==
    [amt_g |-> IF unit = "mg" THEN RDiv(amt_value, Whole(1000)) ELSE amt_value,
     rho   |-> IF mode = DENSITY THEN potency ELSE None,
     df    |-> IF mode = DENSITY THEN None ELSE potency]

Rows(mode, pots) ==
    {ApiRow(e[1], e[2], p, mode) : e \in AmountInputs, p \in pots}

SeqsUpTo(S, n) == UNION {[1..k -> S] : k \in 1..n}

\* "How many API components?": max_value of the two scripts
MaxApiComponents == 6
MaxApiComponents5 == 5

Min(a, b) == IF a < b THEN a ELSE b

\* the sidebar form holds values the widgets can return
FormFilled(modes, pots, overs, steps) ==
    \E n \in Ns, b \in BaseDensities, w \in BlankWeights, m \in modes,
       o \in overs, r \in steps :
        \E a \in SeqsUpTo(Rows(m, pots), Min(MaxApis, MaxApiComponents)) :
            form = [N |-> n, base_density |-> b, blank_unit_weight_g |-> w,
                    api_mode |-> m, apis |-> a, overage_pct |-> o,
                    round_step |-> r]

\* the widgets' initial values
DefaultN == 12
DefaultForm ==
    [N |-> DefaultN, base_density |-> <<9, 10>>, blank_unit_weight_g |-> Whole(2),
     api_mode |-> DENSITY,
     apis |-> <<ApiRow(Whole(200), "mg", Whole(3), DENSITY)>>,
     overage_pct |-> Zero, round_step |-> "0.001 g"]

(***************************************************************************)
(* suppository_calculator.py: the run after Calculate.                     *)
(***************************************************************************)
RECURSIVE SumSeq(_)
\* sum of the terms, accumulated left to right from 0.0
SumSeq(terms) ==
    IF terms = <<>> THEN Zero
    ELSE RAdd(SumSeq(SubSeq(terms, 1, Len(terms) - 1)), terms[Len(terms)])

\* Step 1
TotalApiPerUnit(apis) == SumSeq([i \in 1..Len(apis) |-> apis[i].amt_g])

\* the potency the validation loop of the active mode reads
ActivePotency(a, mode) == IF mode = DENSITY THEN a.rho ELSE a.df

BadPotency(a, mode) ==
    Falsy(ActivePotency(a, mode)) \/ RLe(ActivePotency(a, mode), Zero)

FirstBadAsLast(apis, mode) ==
    LET bad == {i \in 1..Len(apis) : BadPotency(apis[i], mode)}
    IN  IF bad = {} THEN 0 ELSE CHOOSE i \in bad : \A j \in bad : j <= i

\* index of the component the loop stops at (0: none)
FirstBad(apis, mode) ==
    LET bad == {i \in 1..Len(apis) : BadPotency(apis[i], mode)}
    IN  IF bad = {} THEN 0 ELSE CHOOSE i \in bad : \A j \in bad : i <= j

Ratio(a, base) == RDiv(a.rho, base)

DisplacedDensityAsMultiply(a, base) == RMul(a.amt_g, Ratio(a, base))

\* Step 4, density mode, one component: amt_g / ratio
DisplacedDensity(a, base) == RDiv(a.amt_g, Ratio(a, base))

DisplacedDFAsMultiply(a) == RMul(a.amt_g, a.df)

\* Step 4, DF mode, one component: amt_g / df
DisplacedDF(a) == RDiv(a.amt_g, a.df)

DisplacedPerUnit(f) ==
    IF f.api_mode = DENSITY
    THEN SumSeq([i \in 1..Len(f.apis) |->
                   DisplacedDensity(f.apis[i], f.base_density)])
    ELSE SumSeq([i \in 1..Len(f.apis) |-> DisplacedDF(f.apis[i])])

Ratios(f) ==
    IF f.api_mode = DENSITY
    THEN [i \in 1..Len(f.apis) |-> Ratio(f.apis[i], f.base_density)]
    ELSE <<>>

ApplyOverageAsShrink(x, overage_pct) ==
    IF RLt(Zero, overage_pct)
    THEN RMul(x, RSub(Whole(1), RDiv(overage_pct, Whole(100))))
    ELSE x

ApplyOverage(x, overage_pct) ==
    IF RLt(Zero, overage_pct)
    THEN RMul(x, RAdd(Whole(1), RDiv(overage_pct, Whole(100))))
    ELSE x

\* number of rounding steps per gram
StepsPerGram(step) ==
    CASE step = "0.001 g" -> 1000
      [] step = "0.01 g"  -> 100
      [] step = "0.1 g"   -> 10

\* round_to is called once (required_base_batch = round_to(required_base_batch,
\* round_step)) and defined in neither script; it is modelled from Step 5 of
\* the design document: "none" leaves the value unchanged, otherwise the
\* nearest multiple of the step, ties to the even multiple.
round_to(x, step) ==
    IF step = "none" THEN x
    ELSE LET s   == StepsPerGram(step)
             n   == x[1] * s
             d   == x[2]
             fl  == n \div d
             rem == n % d
             k   == IF 2 * rem < d THEN fl
                    ELSE IF 2 * rem > d THEN fl + 1
                    ELSE IF fl % 2 = 0 THEN fl ELSE fl + 1
         IN  Rat(k, s)

RequiredBaseBatchAsRoundFirst(pre, overage_pct, step) ==
    ApplyOverage(round_to(pre, step), overage_pct)

\* Step 5: overage, then rounding
RequiredBaseBatch(pre, overage_pct, step) ==
    round_to(ApplyOverage(pre, overage_pct), step)

\* per-unit figure of Step 5: the rounded batch value split evenly
RequiredBasePerUnitOut(required_base_batch, n) ==
    RDiv(required_base_batch, Whole(n))

NEGATIVE_BASE == "negative_base_per_unit"
NON_NEGATIVE == "per_unit_non_negative"
EXCEEDS_BLANK == "api_volume_exceeds_blank"
BASE_INVALID == "base_density_not_positive"

CapacityChecksAsNotPositive(required_base_per_unit, displaced_per_unit, blank, base) ==
    (IF RLe(required_base_per_unit, Zero) THEN {NEGATIVE_BASE} ELSE {NON_NEGATIVE})
    \cup (IF RLt(blank, displaced_per_unit) THEN {EXCEEDS_BLANK} ELSE {})
    \cup (IF RLe(base, Zero) THEN {BASE_INVALID} ELSE {})

\* "Capacity & Sanity Checks"
CapacityChecks(required_base_per_unit, displaced_per_unit, blank, base) ==
    (IF RLt(required_base_per_unit, Zero) THEN {NEGATIVE_BASE} ELSE {NON_NEGATIVE})
    \cup (IF RLt(blank, displaced_per_unit) THEN {EXCEEDS_BLANK} ELSE {})
    \cup (IF RLe(base, Zero) THEN {BASE_INVALID} ELSE {})

WrongDisplacedAsDivide(a, base) == RDiv(a.amt_g, Ratio(a, base))

\* the reversed-ratio mistake, one component: amt_g * ratio
WrongDisplaced(a, base) == RMul(a.amt_g, Ratio(a, base))

DiffAsSigned(wrong_required_batch, est_blank_batch, displaced_batch) ==
    RSub(wrong_required_batch, RSub(est_blank_batch, displaced_batch))

\* "off by"
Diff(wrong_required_batch, est_blank_batch, displaced_batch) ==
    RAbs(RSub(wrong_required_batch, RSub(est_blank_batch, displaced_batch)))

DirectSubtractAsDisplaced(est_blank_batch, total_api_batch, displaced_batch) ==
    RSub(est_blank_batch, displaced_batch)

\* the direct-subtraction mistake
DirectSubtract(est_blank_batch, total_api_batch, displaced_batch) ==
    RSub(est_blank_batch, total_api_batch)

NoCoach ==
    [wrong_displaced_batch |-> None, wrong_required_batch |-> None,
     diff |-> None, direct_subtract_required_batch |-> None]

\* "Error Checks & Coaching", density mode
Coaching(f, est_blank_batch, total_api_batch, displaced_batch) ==
    LET wrong_displaced_per_unit ==
            SumSeq([i \in 1..Len(f.apis) |->
                      WrongDisplaced(f.apis[i], f.base_density)])
        wrong_displaced_batch == RMul(wrong_displaced_per_unit, Whole(f.N))
        wrong_required_batch == RSub(est_blank_batch, wrong_displaced_batch)
    IN  [wrong_displaced_batch |-> wrong_displaced_batch,
         wrong_required_batch |-> wrong_required_batch,
         diff |-> Diff(wrong_required_batch, est_blank_batch, displaced_batch),
         direct_subtract_required_batch |->
             DirectSubtract(est_blank_batch, total_api_batch, displaced_batch)]

NoRes ==
    [total_api_per_unit |-> None, total_api_batch |-> None,
     est_blank_batch |-> None, displaced_per_unit |-> None,
     displaced_batch |-> None, required_base_per_unit |-> None,
     required_base_batch_pre |-> None, required_base_batch |-> None,
     required_base_per_unit_out |-> None, ratios |-> <<>>]

NoErr == [kind |-> "none", comp |-> 0]

STEPS == "step_by_step_results"
CAPACITY == "capacity_checks"
COACH_DENSITY == "coaching_mistakes"
COACH_DF == "coaching_df_info"
INFO == "enter_inputs_info"
EXPORT_HEADING == "export_heading"
EXPORT == "export_download"

\* the branch taken when submitted is true
Calculation(f) ==
    LET bad == FirstBad(f.apis, f.api_mode)
        total_api_per_unit == TotalApiPerUnit(f.apis)
        total_api_batch == RMul(total_api_per_unit, Whole(f.N))
        est_blank_batch == RMul(f.blank_unit_weight_g, Whole(f.N))
        displaced_per_unit == DisplacedPerUnit(f)
        displaced_batch == RMul(displaced_per_unit, Whole(f.N))
        required_base_per_unit == RSub(f.blank_unit_weight_g, displaced_per_unit)
        pre == RSub(est_blank_batch, displaced_batch)
        required_base_batch == RequiredBaseBatch(pre, f.overage_pct, f.round_step)
    IN  IF bad # 0
        THEN \* st.error(...); st.stop()
             [submitted |-> TRUE, phase |-> "error",
              err |-> [kind |-> IF f.api_mode = DENSITY
                                THEN "API density must be > 0"
                                ELSE "DF must be > 0",
                       comp |-> bad],
              shown |-> {}, res |-> NoRes, flags |-> {}, coach |-> NoCoach]
        ELSE [submitted |-> TRUE, phase |-> "completed",
              err |-> NoErr,
              shown |-> {STEPS, CAPACITY,
                         IF f.api_mode = DENSITY THEN COACH_DENSITY ELSE COACH_DF},
              res |-> [total_api_per_unit |-> total_api_per_unit,
                       total_api_batch |-> total_api_batch,
                       est_blank_batch |-> est_blank_batch,
                       displaced_per_unit |-> displaced_per_unit,
                       displaced_batch |-> displaced_batch,
                       required_base_per_unit |-> required_base_per_unit,
                       required_base_batch_pre |-> pre,
                       required_base_batch |-> required_base_batch,
                       required_base_per_unit_out |->
                           RequiredBasePerUnitOut(required_base_batch, f.N),
                       ratios |-> Ratios(f)],
              flags |-> CapacityChecks(required_base_per_unit, displaced_per_unit,
                                       f.blank_unit_weight_g, f.base_density),
              coach |-> IF f.api_mode = DENSITY
                        THEN Coaching(f, est_blank_batch, total_api_batch,
                                      displaced_batch)
                        ELSE NoCoach]

\* the branch taken when submitted is false: the export reads
\* total_api_per_unit, which this run never bound
NoCalculation(f) ==
    [submitted |-> FALSE, phase |-> "aborted",
     err |-> [kind |-> "NameError: total_api_per_unit", comp |-> 0],
     shown |-> {INFO, EXPORT_HEADING}, res |-> NoRes, flags |-> {},
     coach |-> NoCoach]

\* one run of suppository_calculator.py
Run(f, submitted) == IF submitted THEN Calculation(f) ELSE NoCalculation(f)

(***************************************************************************)
(* suppository_calculator_5step.py: every run calculates.                  *)
(***************************************************************************)
\* amounts and densities as entered on the 5-step page
Amounts5 == {Zero, Whole(200)}
Units == {"mg", "g"}
Densities5 == {<<1, 1>>, <<3, 1>>}

\* the row a new component starts with (i > 0)
DefaultRow5 == [amt_value |-> Zero, unit |-> "mg", rho |-> Whole(1)]

DefaultInputs5 ==
    [n |-> 1, blank_unit_weight_g |-> Whole(2), base_density |-> Whole(1),
     rows |-> <<[amt_value |-> Whole(200), unit |-> "mg", rho |-> Whole(3)]>>]

\* the apis list built from the rows
Apis5(rows) ==
    [i \in 1..Len(rows) |->
        [amt_g |-> IF rows[i].unit = "mg"
                   THEN RDiv(rows[i].amt_value, Whole(1000))
                   ELSE rows[i].amt_value,
         rho |-> rows[i].rho]]

\* one term of base_displaced: (amt_g / rho) * base_density
Displaced5(a, base) == RMul(RDiv(a.amt_g, a.rho), base)

\* "Basic sanity warning"
Warning5(required_base) == RLt(required_base, Zero)

\* "Calculations" and the outputs that follow
Calculations5(n, blank, base, apis) ==
    LET total_api_weight == RMul(TotalApiPerUnit(apis), Whole(n))
        estimated_blank_base == RMul(blank, Whole(n))
        base_displaced ==
            RMul(SumSeq([i \in 1..Len(apis) |-> Displaced5(apis[i], base)]),
                 Whole(n))
        required_base == RSub(estimated_blank_base, base_displaced)
    IN  [total_api_weight |-> total_api_weight,
         estimated_blank_base |-> estimated_blank_base,
         base_displaced |-> base_displaced,
         required_base |-> required_base,
         ratios |-> [i \in 1..Len(apis) |-> Ratio(apis[i], base)],
         displaced_per_unit |->
             [i \in 1..Len(apis) |-> RDiv(apis[i].amt_g, Ratio(apis[i], base))],
         warning |-> Warning5(required_base)]

\* one run of suppository_calculator_5step.py
Run5Step(g) ==
    [inputs |-> g,
     out |-> Calculations5(g.n, g.blank_unit_weight_g, g.base_density,
                           Apis5(g.rows))]

NoFive ==
    [inputs |-> [n |-> 0, blank_unit_weight_g |-> None, base_density |-> None,
                 rows |-> <<>>]]
NoForm == [N |-> 0]
NoPage == [submitted |-> FALSE, phase |-> "none"]

(***************************************************************************)
(* Sessions.  A script keeps nothing from one run to the next, so a        *)
(* session of suppository_calculator.py is followed for one filling of     *)
(* its form.                                                               *)
(***************************************************************************)
MAIN == "suppository_calculator.py"
FIVE == "suppository_calculator_5step.py"

\* the first run of the script a session serves; in the sidebar form the
\* user has entered the values to calculate with
Init ==
    /\ app \in {MAIN, FIVE}
    /\ IF app = MAIN
       THEN /\ FormFilled(ApiModes, Potencies, Overages, RoundSteps)
            /\ page = Run(DefaultForm, FALSE)
            /\ five = NoFive
       ELSE /\ form = NoForm
            /\ page = NoPage
            /\ five = Run5Step(DefaultInputs5)

\* a click on Calculate
Calculate ==
    /\ app = MAIN
    /\ page' = Run(form, TRUE)
    /\ UNCHANGED <<app, form, five>>

\* the script is run again without a click on Calculate
Rerun ==
    /\ app = MAIN
    /\ page' = Run(form, FALSE)
    /\ UNCHANGED <<app, form, five>>

\* a widget of the 5-step page changes and the script runs again
Edit5(g) ==
    /\ app = FIVE
    /\ g # five.inputs
    /\ five' = Run5Step(g)
    /\ UNCHANGED <<app, form, page>>

SetN5 == \E n \in Ns : Edit5([five.inputs EXCEPT !.n = n])

SetBlank5 ==
    \E w \in BlankWeights : Edit5([five.inputs EXCEPT !.blank_unit_weight_g = w])

SetBase5 ==
    \E b \in BaseDensities : Edit5([five.inputs EXCEPT !.base_density = b])

SetCount5 ==
    \E k \in 1..Min(MaxApis, MaxApiComponents5) :
        Edit5([five.inputs EXCEPT !.rows =
                 [i \in 1..k |-> IF i <= Len(@) THEN @[i] ELSE DefaultRow5]])

SetAmount5 ==
    \E i \in 1..Len(five.inputs.rows), v \in Amounts5 :
        Edit5([five.inputs EXCEPT !.rows[i].amt_value = v])

SetUnit5 ==
    \E i \in 1..Len(five.inputs.rows), u \in Units :
        Edit5([five.inputs EXCEPT !.rows[i].unit = u])

SetRho5 ==
    \E i \in 1..Len(five.inputs.rows), p \in Densities5 :
        Edit5([five.inputs EXCEPT !.rows[i].rho = p])

NextMain == Calculate \/ Rerun

Next5 ==
    \/ SetN5
    \/ SetBlank5
    \/ SetBase5
    \/ SetCount5
    \/ SetAmount5
    \/ SetUnit5
    \/ SetRho5

Next == NextMain \/ Next5

Spec == Init /\ [][Next]_vars

(***************************************************************************)
(* The calculation block of suppository_calculator.py tests every potency  *)
(* it reads (not a["rho"] or a["rho"] <= 0) although the widgets never     *)
(* return a value below their min_value.  SpecBlock runs the script on the *)
(* values that test is written for as well: a potency that is missing,     *)
(* zero or negative.                                                       *)
(***************************************************************************)
BlockPotencies == {None, Zero, <<-1, 1>>, <<2, 1>>}

InitBlock ==
    /\ app = MAIN
    /\ FormFilled(ApiModes, BlockPotencies, {Zero}, {"0.01 g"})
    /\ page = Run(DefaultForm, FALSE)
    /\ five = NoFive

SpecBlock == InitBlock /\ [][NextMain]_vars

(***************************************************************************)
(* Properties.                                                             *)
(***************************************************************************)
Calculated == app = MAIN /\ page.submitted
Completed == Calculated /\ page.phase = "completed"

N_ == Whole(form.N)
BlankBatch == RMul(form.blank_unit_weight_g, N_)

\* m * rb / r
DisplacementTerm(a) == RDiv(RMul(a.amt_g, form.base_density), a.rho)
\* m / DF
DisplacementTermDF(a) == RDiv(a.amt_g, a.df)
DisplacementSum ==
    SumSeq([i \in 1..Len(form.apis) |->
              IF form.api_mode = DENSITY
              THEN DisplacementTerm(form.apis[i])
              ELSE DisplacementTermDF(form.apis[i])])

Positive(x) == x # None /\ x[1] > 0

\* C1: in density mode the displaced base per unit is the sum over the
\* components of m_i * rb / r_i, the batch figure is N times it and the
\* pre-overage required base is B*N minus the batch figure; the 5-step script
\* computes the same values from the same inputs.
C1_DensityDisplacement ==
    /\ (Completed /\ form.api_mode = DENSITY) =>
          LET d == DisplacementSum
              c == Calculations5(form.N, form.blank_unit_weight_g,
                                 form.base_density,
                                 [i \in 1..Len(form.apis) |->
                                    [amt_g |-> form.apis[i].amt_g,
                                     rho |-> form.apis[i].rho]])
          IN  /\ page.res.displaced_per_unit = d
              /\ page.res.displaced_batch = RMul(N_, d)
              /\ page.res.required_base_batch_pre = RSub(BlankBatch, RMul(N_, d))
              /\ Len(form.apis) <= MaxApiComponents5 =>
                    /\ c.base_displaced = page.res.displaced_batch
                    /\ c.required_base = page.res.required_base_batch_pre
    /\ app = FIVE =>
          LET g == five.inputs
              apis == Apis5(g.rows)
              d == SumSeq([i \in 1..Len(apis) |->
                             RDiv(RMul(apis[i].amt_g, g.base_density),
                                  apis[i].rho)])
          IN  /\ five.out.base_displaced = RMul(Whole(g.n), d)
              /\ five.out.required_base =
                    RSub(RMul(g.blank_unit_weight_g, Whole(g.n)),
                         RMul(Whole(g.n), d))

C1_Witness ==
    /\ Completed
    /\ form.api_mode = DENSITY
    /\ form.N = 2
    /\ Len(form.apis) = 2
    /\ \A i \in 1..2 : Positive(form.apis[i].amt_g)
    /\ form.apis[1].rho # form.apis[2].rho
    /\ form.base_density # Whole(1)

\* C2: a calculation whose required base is negative is no error: the run
\* completes, Step 5 shows the (non-positive, and without rounding negative)
\* value, and the negative-base flag is raised exactly when
\* blank - displaced per unit < 0, before overage; the 5-step script warns.
C2_NegativeBaseIsReported ==
    /\ Calculated =>
          /\ page.phase = "completed"
          /\ STEPS \in page.shown /\ CAPACITY \in page.shown
          /\ (NEGATIVE_BASE \in page.flags)
                <=> RLt(RSub(form.blank_unit_weight_g, DisplacementSum), Zero)
          /\ RLt(form.blank_unit_weight_g, DisplacementSum) =>
                /\ RLe(page.res.required_base_batch, Zero)
                /\ form.round_step = "none" =>
                      RLt(page.res.required_base_batch, Zero)
    /\ app = FIVE => (five.out.warning <=> RLt(five.out.required_base, Zero))

C2_Witness ==
    /\ Completed
    /\ NEGATIVE_BASE \in page.flags
    /\ form.N = 1 /\ form.blank_unit_weight_g = <<1, 2>>
    /\ form.base_density = Whole(1)
    /\ form.apis = <<ApiRow(Whole(1), "g", <<1, 2>>, DENSITY)>>
    /\ page.res.required_base_batch_pre = <<-3, 2>>

\* a potency that is missing or <= 0
Offending(a) ==
    LET p == IF form.api_mode = DENSITY THEN a.rho ELSE a.df
    IN  p = None \/ p[1] <= 0

\* C3: when a component's active potency is missing or <= 0 the run ends in
\* the error state naming the first such component and shows no result,
\* capacity check, coaching or export.
C3_BadPotencyStops ==
    (Calculated /\ \E i \in 1..Len(form.apis) : Offending(form.apis[i])) =>
        /\ page.phase = "error"
        /\ page.err.comp \in 1..Len(form.apis)
        /\ Offending(form.apis[page.err.comp])
        /\ \A j \in 1..(page.err.comp - 1) : ~Offending(form.apis[j])
        /\ page.err.kind = IF form.api_mode = DENSITY
                           THEN "API density must be > 0" ELSE "DF must be > 0"
        /\ page.shown = {}
        /\ page.res = NoRes
        /\ page.flags = {}
        /\ page.coach = NoCoach

C3_Witness ==
    /\ Calculated
    /\ page.phase = "error"
    /\ page.err.comp = 2
    /\ Positive(form.apis[1].amt_g)

\* B*N - N * sum of m_i
DirectSubtractionFigure ==
    RSub(BlankBatch,
         RMul(N_, SumSeq([i \in 1..Len(form.apis) |-> form.apis[i].amt_g])))

\* C4 as claimed: every completed calculation, in either mode, reports the
\* direct-subtraction figure B*N - N * sum of m_i.
C4_DirectSubtractionInBothModes ==
    Completed =>
        page.coach.direct_subtract_required_batch = DirectSubtractionFigure

\* C4 as amended: a completed density-mode calculation reports the
\* direct-subtraction figure B*N - N * sum of m_i; a completed DF-mode
\* calculation shows the DF note and reports no figure.
C4_DirectSubtractionInDensityMode ==
    Completed =>
        IF form.api_mode = DENSITY
        THEN /\ COACH_DENSITY \in page.shown
             /\ page.coach.direct_subtract_required_batch = DirectSubtractionFigure
        ELSE /\ COACH_DF \in page.shown /\ COACH_DENSITY \notin page.shown
             /\ page.coach = NoCoach

C4_Witness ==
    /\ Completed
    /\ form.api_mode = DENSITY
    /\ page.coach.direct_subtract_required_batch # page.res.required_base_batch_pre
    /\ Positive(page.res.total_api_batch)

\* C5: a calculation that was submitted and has completed is followed by the
\* export of its values.
C5_ExportOfCompletedCalculation ==
    Completed => EXPORT \in page.shown

\* sum of m_i * ratio_i, ratio_i = r_i / rb
ReversedTerm(a) == RMul(a.amt_g, RDiv(a.rho, form.base_density))
ReversedSum == SumSeq([i \in 1..Len(form.apis) |-> ReversedTerm(form.apis[i])])

RatioIs(a, rel) ==
    CASE rel = "=" -> a.rho = form.base_density
      [] rel = ">" -> RLt(form.base_density, a.rho)
      [] rel = "<" -> RLt(a.rho, form.base_density)

Loaded == {i \in 1..Len(form.apis) : Positive(form.apis[i].amt_g)}

\* C6 as claimed: in density mode the reversed-ratio displaced base equals the
\* correct one only when every ratio is 1; with a ratio other than 1 the two
\* displaced values, and the wrong and the correct required base, differ.
C6_ReversedRatioDiffersUnlessRatioOne ==
    (Completed /\ form.api_mode = DENSITY
       /\ \E i \in 1..Len(form.apis) : ~RatioIs(form.apis[i], "=")) =>
        /\ page.coach.wrong_displaced_batch # page.res.displaced_batch
        /\ page.coach.wrong_required_batch # page.res.required_base_batch_pre

\* C6 as amended: the reversed-ratio displaced base is N * sum of m_i * ratio_i;
\* it equals the correct displaced base when every component with m_i > 0 has
\* ratio 1, is strictly greater when some m_i > 0 and every such component has
\* ratio > 1, and strictly smaller when every such component has ratio < 1 (the
\* wrong required base then differs from the correct pre-overage one the other
\* way round).
C6_ReversedRatioBySideOfOne ==
    (Completed /\ form.api_mode = DENSITY) =>
        LET wrong == page.coach.wrong_displaced_batch
            right == page.res.displaced_batch
            all(rel) == \A i \in Loaded : RatioIs(form.apis[i], rel)
        IN  /\ wrong = RMul(N_, ReversedSum)
            /\ page.coach.wrong_required_batch = RSub(BlankBatch, wrong)
            /\ all("=") => wrong = right
            /\ (Loaded # {} /\ all(">")) =>
                  /\ RLt(right, wrong)
                  /\ RLt(page.coach.wrong_required_batch,
                         page.res.required_base_batch_pre)
            /\ (Loaded # {} /\ all("<")) =>
                  /\ RLt(wrong, right)
                  /\ RLt(page.res.required_base_batch_pre,
                         page.coach.wrong_required_batch)

C6_Witness ==
    /\ Completed
    /\ form.api_mode = DENSITY
    /\ Len(form.apis) = 2
    /\ Loaded = {1, 2}
    /\ \A i \in Loaded : RatioIs(form.apis[i], ">")
    /\ form.apis[1].amt_g # form.apis[2].amt_g
    /\ RLt(page.res.displaced_batch, page.coach.wrong_displaced_batch)

\* the calculation of the same form without overage
WithoutOverage == Calculation([form EXCEPT !.overage_pct = Zero])

\* C7 as claimed: with a pre-overage required base > 0, the required base
\* reported with an overage > 0 is strictly greater than the one reported
\* for the same inputs without overage.
C7_OverageStrictlyIncreases ==
    (Completed /\ RLt(Zero, form.overage_pct)
       /\ RLt(Zero, page.res.required_base_batch_pre)) =>
        RLt(WithoutOverage.res.required_base_batch, page.res.required_base_batch)

\* C7 as amended: with a pre-overage required base > 0, the required base
\* reported with an overage > 0 is never smaller than the one reported for the
\* same inputs without overage, and is strictly greater when the rounding step
\* is "none".
C7_OverageNeverDecreases ==
    (Completed /\ RLt(Zero, form.overage_pct)
       /\ RLt(Zero, page.res.required_base_batch_pre)) =>
        /\ RLe(WithoutOverage.res.required_base_batch, page.res.required_base_batch)
        /\ form.round_step = "none" =>
              RLt(WithoutOverage.res.required_base_batch,
                  page.res.required_base_batch)

C7_Witness ==
    /\ Completed
    /\ RLt(Zero, form.overage_pct)
    /\ RLt(Zero, page.res.required_base_batch_pre)
    /\ form.round_step = "0.1 g"
    /\ RLt(WithoutOverage.res.required_base_batch, page.res.required_base_batch)

\* the density-mode form whose densities are DF_i * rb
MatchedDensityForm ==
    [form EXCEPT !.api_mode = DENSITY,
                 !.apis = [i \in 1..Len(form.apis) |->
                             [amt_g |-> form.apis[i].amt_g,
                              rho |-> RMul(form.apis[i].df, form.base_density),
                              df |-> None]]]

\* C8: a DF-mode calculation and the density-mode calculation of the same
\* components with r_i / rb = DF_i give the same displaced base per unit and
\* per batch and the same required base.
C8_ModesAgree ==
    (Completed /\ form.api_mode = DF) =>
        LET d == Calculation(MatchedDensityForm).res
        IN  /\ d.displaced_per_unit = page.res.displaced_per_unit
            /\ d.displaced_batch = page.res.displaced_batch
            /\ d.required_base_batch_pre = page.res.required_base_batch_pre
            /\ d.required_base_batch = page.res.required_base_batch
            /\ d.required_base_per_unit_out = page.res.required_base_per_unit_out

C8_Witness ==
    /\ Completed
    /\ form.api_mode = DF
    /\ Len(form.apis) = 2
    /\ \A i \in 1..2 : Positive(form.apis[i].amt_g) /\ form.apis[i].df # Whole(1)
    /\ form.apis[1].df # form.apis[2].df
    /\ form.base_density # Whole(1)

\* (B*N - displaced batch), times 1 + overage/100 when overage > 0, rounded
SubtractOverageRound ==
    LET sub == RSub(BlankBatch, RMul(N_, DisplacementSum))
        ovr == IF form.overage_pct[1] > 0
               THEN RDiv(RMul(sub, RAdd(Whole(100), form.overage_pct)), Whole(100))
               ELSE sub
    IN  round_to(ovr, form.round_step)

\* C9: Step 5 subtracts, then applies the overage, then rounds; the per-unit
\* figure it reports is that batch value divided by N.
C9_StepFiveOrder ==
    Completed =>
        /\ page.res.required_base_batch = SubtractOverageRound
        /\ page.res.required_base_per_unit_out = RDiv(SubtractOverageRound, N_)

C9_Witness ==
    /\ Completed
    /\ form.N = 2
    /\ RLt(Zero, form.overage_pct)
    /\ form.round_step = "0.1 g"
    /\ page.res.required_base_per_unit_out # page.res.required_base_per_unit
    /\ page.res.required_base_batch #
          ApplyOverage(round_to(page.res.required_base_batch_pre, form.round_step),
                       form.overage_pct)
    /\ page.res.required_base_batch #
          ApplyOverage(page.res.required_base_batch_pre, form.overage_pct)

\* B*N - N * sum of m_i * ratio_i
WrongRequired == RSub(BlankBatch, RMul(N_, ReversedSum))

====
